---- MODULE Spec2Model ----
(***************************************************************************)
(* Model of puzzle.py: PuzzleBoard (the grid and its guarded writes) and   *)
(* PuzzleSolver (the four local deduction rules), together with the        *)
(* propagation driver described in spec.md section 4.2.                     *)
(***************************************************************************)
EXTENDS Integers, Sequences, FiniteSets, TLC

\* PuzzleBoard(5, 5): the grid built at the bottom of puzzle.py.
height == 5
width == 5

\* Largest requirement loaded into a cell (cells hold ' ' or '0'..MaxReq).
MaxReq == 3

\* Largest requirement at the cell a single call is made on (spec.md 8,
\* scenario 2, loads a 4).
MaxCallReq == 4

\* The driver's sweep counter stops here (beyond the claimed maximum).
MaxSweeps == 15

VARIABLES
    board,   \* PuzzleBoard.board: position -> symbol
    arg,     \* [row, col, link_type]: the arguments of a call made on its own
    op,      \* the PuzzleBoard method called last, "rule" for a PuzzleSolver
             \* rule, the order of a driver sweep, "init" before any call
    ret,     \* value the last operation returned
    exc,     \* exception the last operation raised ("none" if it returned)
    sweeps,  \* driver: full sweeps performed
    writes,  \* driver: positions written by the sweeps so far
    done     \* driver: the last sweep wrote nothing

vars == <<board, arg, op, ret, exc, sweeps, writes, done>>

----------------------------------------------------------------------------
\* Symbols and positions

None == "None"
Empty == " "
Blocked == "x"
Links == {"-", "|"}
Digit == <<"0", "1", "2", "3", "4", "5", "6", "7", "8", "9">>
ReqSyms == {Digit[n + 1] : n \in 0..MaxReq}

Rows == 0..(height - 1)
Cols == 0..(width - 1)
Pos == Rows \X Cols
\* Coordinates a caller may pass: one step outside the grid on each side.
Coords == (-1..height) \X (-1..width)

IsCell(p) == p[1] % 2 = 1 /\ p[2] % 2 = 1
IsDot(p) == p[1] % 2 = 0 /\ p[2] % 2 = 0
IsEdge(p) == (p[1] % 2) # (p[2] % 2)
Cells == {p \in Pos : IsCell(p)}
Dots == {p \in Pos : IsDot(p)}
EdgeSlots == {p \in Pos : IsEdge(p)}

\* int(cell_value): the number a digit denotes.
IntOf(s) == CHOOSE n \in 0..9 : Digit[n + 1] = s
IsDigit(s) == \E n \in 0..9 : Digit[n + 1] = s

----------------------------------------------------------------------------
\* PuzzleBoard

get_value_wrap(b, row, col) ==
    IF row < height /\ col < width /\ row >= -height /\ col >= -width
    THEN b[<<(row + height) % height, (col + width) % width>>]
    ELSE None

get_value(b, row, col) ==
    IF 0 <= row /\ row < height /\ 0 <= col /\ col < width
    THEN b[<<row, col>>]
    ELSE None

InBounds(row, col) == 0 <= row /\ row < height /\ 0 <= col /\ col < width

get_adjacent(row, col) ==
    << <<row - 1, col>>, <<row + 1, col>>, <<row, col - 1>>, <<row, col + 1>> >>

count_links_horizontal(b, row, col) ==
    LET adj == get_adjacent(row, col)
    IN  Cardinality({i \in 1..4 : get_value(b, adj[i][1], adj[i][2]) = "-"})

count_links(b, row, col) ==
    LET adj == get_adjacent(row, col)
    IN  Cardinality({i \in 1..4 : get_value(b, adj[i][1], adj[i][2]) \in Links})

count_xes(b, row, col) ==
    LET adj == get_adjacent(row, col)
    IN  Cardinality({i \in 1..4 : get_value(b, adj[i][1], adj[i][2]) = Blocked})

cond_set_x_wrap(b, row, col) ==
    IF get_value_wrap(b, row, col) = Empty
    THEN [b EXCEPT ![<<(row + height) % height, (col + width) % width>>] = Blocked]
    ELSE b

cond_set_x_overwrite(b, row, col) ==
    IF get_value(b, row, col) \in {Empty} \cup Links
    THEN [b EXCEPT ![<<row, col>>] = Blocked]
    ELSE b

cond_set_x(b, row, col) ==
    IF get_value(b, row, col) = Empty
    THEN [b EXCEPT ![<<row, col>>] = Blocked]
    ELSE b

cond_set_link_unguarded(b, row, col, link_type) ==
    IF get_value(b, row, col) # None
    THEN [b EXCEPT ![<<row, col>>] = link_type]
    ELSE b

cond_set_link(b, row, col, link_type) ==
    IF get_value(b, row, col) = Empty
    THEN [b EXCEPT ![<<row, col>>] = link_type]
    ELSE b

----------------------------------------------------------------------------
\* PuzzleSolver helpers

fill_x_around_first(b, row, col) ==
    LET b1 == cond_set_x(b, row - 1, col)
        b2 == cond_set_x(b, row + 1, col)
        b3 == cond_set_x(b, row, col - 1)
    IN  IF b1 # b THEN b1
        ELSE IF b2 # b THEN b2
        ELSE IF b3 # b THEN b3
        ELSE cond_set_x(b, row, col + 1)

fill_x_around_diag(b, row, col) ==
    LET b1 == cond_set_x(b, row - 1, col - 1)
        b2 == cond_set_x(b1, row + 1, col)
        b3 == cond_set_x(b2, row, col - 1)
    IN  cond_set_x(b3, row, col + 1)

fill_x_around(b, row, col) ==
    LET b1 == cond_set_x(b, row - 1, col)
        b2 == cond_set_x(b1, row + 1, col)
        b3 == cond_set_x(b2, row, col - 1)
    IN  cond_set_x(b3, row, col + 1)

fill_remaining_with_links(b, row, col) ==
    LET b1 == cond_set_link(b, row - 1, col, "|")
        b2 == cond_set_link(b1, row + 1, col, "|")
        b3 == cond_set_link(b2, row, col - 1, "-")
    IN  cond_set_link(b3, row, col + 1, "-")

enforce_vertical_links(b, row, col) ==
    cond_set_link(cond_set_link(b, row - 1, col, "|"), row + 1, col, "|")

enforce_horizontal_links(b, row, col) ==
    cond_set_link(cond_set_link(b, row, col - 1, "-"), row, col + 1, "-")

\* The exception int(cell_value) raises, "none" when it returns or is not
\* reached (cell_value == ' ').
IntExc(cell_value) ==
    IF cell_value = Empty THEN "none"
    ELSE IF cell_value = None THEN "TypeError"
    ELSE IF IsDigit(cell_value) THEN "none"
    ELSE "ValueError"

----------------------------------------------------------------------------
\* PuzzleSolver rules: the board each leaves behind

fill_x_around_completed_cells_ge(b, row, col) ==
    LET cell_value == get_value(b, row, col)
    IN  IF cell_value # Empty /\ IntExc(cell_value) = "none"
        THEN LET required_links == IntOf(cell_value)
                 links_count == count_links(b, row, col)
                 x_count == count_xes(b, row, col)
             IN  IF links_count >= required_links /\ links_count + x_count # 4
                 THEN fill_x_around(b, row, col)
                 ELSE b
        ELSE b

fill_x_around_completed_cells_le(b, row, col) ==
    LET cell_value == get_value(b, row, col)
    IN  IF cell_value # Empty /\ IntExc(cell_value) = "none"
        THEN LET required_links == IntOf(cell_value)
                 links_count == count_links(b, row, col)
                 x_count == count_xes(b, row, col)
             IN  IF links_count <= required_links /\ links_count + x_count # 4
                 THEN fill_x_around(b, row, col)
                 ELSE b
        ELSE b

fill_x_around_completed_cells(b, row, col) ==
    LET cell_value == get_value(b, row, col)
    IN  IF cell_value # Empty /\ IntExc(cell_value) = "none"
        THEN LET required_links == IntOf(cell_value)
                 links_count == count_links(b, row, col)
                 x_count == count_xes(b, row, col)
             IN  IF links_count = required_links /\ links_count + x_count # 4
                 THEN fill_x_around(b, row, col)
                 ELSE b
        ELSE b

dot_link_rules_all_x(b, row, col) ==
    LET links_count == count_links(b, row, col)
        x_count == count_xes(b, row, col)
    IN  IF links_count = 2 /\ x_count < 2 THEN fill_x_around(b, row, col)
        ELSE IF x_count = 2 /\ links_count = 1
             THEN fill_x_around(b, row, col)
        ELSE IF x_count = 3 THEN fill_x_around(b, row, col)
        ELSE b

dot_link_rules(b, row, col) ==
    LET links_count == count_links(b, row, col)
        x_count == count_xes(b, row, col)
    IN  IF links_count = 2 /\ x_count < 2 THEN fill_x_around(b, row, col)
        ELSE IF x_count = 2 /\ links_count = 1
             THEN fill_remaining_with_links(b, row, col)
        ELSE IF x_count = 3 THEN fill_x_around(b, row, col)
        ELSE b

enforce_cell_link_rules_ge(b, row, col) ==
    LET cell_value == get_value(b, row, col)
    IN  IF cell_value # Empty /\ IntExc(cell_value) = "none"
        THEN LET required_links == IntOf(cell_value)
                 links_count == count_links(b, row, col)
                 x_count == count_xes(b, row, col)
             IN  IF links_count < required_links /\ 4 - x_count >= required_links
                 THEN fill_remaining_with_links(b, row, col)
                 ELSE b
        ELSE b

enforce_cell_link_rules(b, row, col) ==
    LET cell_value == get_value(b, row, col)
    IN  IF cell_value # Empty /\ IntExc(cell_value) = "none"
        THEN LET required_links == IntOf(cell_value)
                 links_count == count_links(b, row, col)
                 x_count == count_xes(b, row, col)
             IN  IF links_count < required_links /\ 4 - x_count = required_links
                 THEN fill_remaining_with_links(b, row, col)
                 ELSE b
        ELSE b

handle_adjacent_threes_horizontal_first(b, row, col) ==
    IF get_value(b, row, col) # "3" THEN b
    ELSE LET next_row == row + 2
             next_col == col + 2
         IN  IF next_col < width /\ get_value(b, row, next_col) = "3"
             THEN enforce_horizontal_links(b, row, col)
             ELSE IF next_row < height /\ get_value(b, next_row, col) = "3"
                  THEN enforce_vertical_links(b, row, col)
                  ELSE b

handle_adjacent_threes(b, row, col) ==
    IF get_value(b, row, col) # "3" THEN b
    ELSE LET next_row == row + 2
             next_col == col + 2
         IN  IF next_row < height /\ get_value(b, next_row, col) = "3"
             THEN enforce_vertical_links(b, row, col)
             ELSE IF next_col < width /\ get_value(b, row, next_col) = "3"
                  THEN enforce_horizontal_links(b, row, col)
                  ELSE b

----------------------------------------------------------------------------
\* Loaded puzzles: requirements written into cells, everything else ' '.

Load(reqs) == [p \in Pos |-> IF p \in Cells THEN reqs[p] ELSE Empty]

Puzzles == {Load(reqs) : reqs \in [Cells -> {Empty} \cup ReqSyms]}

\* The call at the bottom of puzzle.py is made at (2, 2).
DriverArg == [row |-> 2, col |-> 2, link_type |-> "-"]

Init ==
    /\ board \in Puzzles
    /\ arg = DriverArg
    /\ op = "init"
    /\ ret = None
    /\ exc = "none"
    /\ sweeps = 0
    /\ writes = 0
    /\ done = FALSE

\* One rule invoked by the caller at (row, col).
FillXAroundCompletedCells(row, col) ==
    /\ board' = fill_x_around_completed_cells(board, row, col)
    /\ exc' = IntExc(get_value(board, row, col))
    /\ op' = "rule"
    /\ ret' = None
    /\ UNCHANGED <<arg, sweeps, writes, done>>

DotLinkRules(row, col) ==
    /\ board' = dot_link_rules(board, row, col)
    /\ exc' = "none"
    /\ op' = "rule"
    /\ ret' = None
    /\ UNCHANGED <<arg, sweeps, writes, done>>

EnforceCellLinkRules(row, col) ==
    /\ board' = enforce_cell_link_rules(board, row, col)
    /\ exc' = IntExc(get_value(board, row, col))
    /\ op' = "rule"
    /\ ret' = None
    /\ UNCHANGED <<arg, sweeps, writes, done>>

HandleAdjacentThrees(row, col) ==
    /\ board' = handle_adjacent_threes(board, row, col)
    /\ exc' = "none"
    /\ op' = "rule"
    /\ ret' = None
    /\ UNCHANGED <<arg, sweeps, writes, done>>

\* Rules invoked where they belong: cell rules at cells, the dot rule at dots.
Next ==
    \/ \E p \in Cells : FillXAroundCompletedCells(p[1], p[2])
    \/ \E p \in Cells : EnforceCellLinkRules(p[1], p[2])
    \/ \E p \in Cells : HandleAdjacentThrees(p[1], p[2])
    \/ \E p \in Dots : DotLinkRules(p[1], p[2])

Spec == Init /\ [][Next]_vars

\* Rules invoked at any coordinates, in or out of the grid.
NextAny ==
    \/ \E p \in Coords : FillXAroundCompletedCells(p[1], p[2])
    \/ \E p \in Coords : EnforceCellLinkRules(p[1], p[2])
    \/ \E p \in Coords : HandleAdjacentThrees(p[1], p[2])
    \/ \E p \in Coords : DotLinkRules(p[1], p[2])

SpecAny == Init /\ [][NextAny]_vars

----------------------------------------------------------------------------
\* Calls made one at a time on a board whose slots around the called
\* position hold anything (slots pre-set by the loader or by earlier rules).

Nbrs(p) == {<<p[1] - 1, p[2]>>, <<p[1] + 1, p[2]>>,
            <<p[1], p[2] - 1>>, <<p[1], p[2] + 1>>}

AroundEdges(p) == (Nbrs(p) \cup {p}) \cap EdgeSlots

\* Requirements loaded for a call at p: anything up to MaxCallReq at p itself;
\* when p holds a '3', any of the other cells may hold a '3' too (the only
\* value a rule reads from another cell).
LocalLoads(p) ==
    {[q \in Cells |-> IF q = p THEN v ELSE Empty] :
        v \in {Empty} \cup {Digit[n + 1] : n \in 0..MaxCallReq}}
    \cup {[q \in Cells |-> IF q = p \/ q \in T THEN "3" ELSE Empty] :
             T \in {U \in SUBSET (Cells \ {p}) : p \in Cells}}

LocalBoards(p) ==
    {[q \in Pos |-> IF q \in AroundEdges(p) THEN e[q] ELSE Load(reqs)[q]] :
        reqs \in LocalLoads(p),
        e \in [AroundEdges(p) -> {Empty, Blocked} \cup Links]}

InitCalls ==
    /\ arg \in [row : -1..height, col : -1..width, link_type : Links]
    /\ board \in LocalBoards(<<arg.row, arg.col>>)
    /\ op = "init"
    /\ ret = None
    /\ exc = "none"
    /\ sweeps = 0
    /\ writes = 0
    /\ done = FALSE

GetValue ==
    /\ ret' = get_value(board, arg.row, arg.col)
    /\ op' = "get_value"
    /\ exc' = "none"
    /\ UNCHANGED <<board, arg, sweeps, writes, done>>

CountLinks ==
    /\ ret' = count_links(board, arg.row, arg.col)
    /\ op' = "count_links"
    /\ exc' = "none"
    /\ UNCHANGED <<board, arg, sweeps, writes, done>>

CountXes ==
    /\ ret' = count_xes(board, arg.row, arg.col)
    /\ op' = "count_xes"
    /\ exc' = "none"
    /\ UNCHANGED <<board, arg, sweeps, writes, done>>

\* cond_set_x and cond_set_link have no return statement: they return None.
CondSetX ==
    /\ board' = cond_set_x(board, arg.row, arg.col)
    /\ ret' = None
    /\ op' = "cond_set_x"
    /\ exc' = "none"
    /\ UNCHANGED <<arg, sweeps, writes, done>>

CondSetLink ==
    /\ board' = cond_set_link(board, arg.row, arg.col, arg.link_type)
    /\ ret' = None
    /\ op' = "cond_set_link"
    /\ exc' = "none"
    /\ UNCHANGED <<arg, sweeps, writes, done>>

NextCalls ==
    \/ GetValue
    \/ CountLinks
    \/ CountXes
    \/ CondSetX
    \/ CondSetLink
    \/ FillXAroundCompletedCells(arg.row, arg.col)
    \/ EnforceCellLinkRules(arg.row, arg.col)
    \/ DotLinkRules(arg.row, arg.col)
    \/ HandleAdjacentThrees(arg.row, arg.col)

SpecCalls == InitCalls /\ [][NextCalls]_vars

----------------------------------------------------------------------------
\* Propagation driver (spec.md 4.2): sweep every cell and dot position with
\* all rules until a full sweep writes nothing.

RowMajor == [k \in 1..(height * width) |-> <<(k - 1) \div width, (k - 1) % width>>]

Orders == {"forward", "reverse"}

OrderSeq(o) ==
    IF o = "forward" THEN RowMajor
    ELSE [k \in 1..(height * width) |-> RowMajor[height * width + 1 - k]]

Changed(b, c) == Cardinality({p \in Pos : b[p] # c[p]})

\* All rules that apply to position p, one after the other; n counts writes.
ApplyRules(s, p) ==
    IF IsCell(p)
    THEN LET b1 == fill_x_around_completed_cells(s.b, p[1], p[2])
             b2 == enforce_cell_link_rules(b1, p[1], p[2])
             b3 == handle_adjacent_threes(b2, p[1], p[2])
         IN  [b |-> b3,
              n |-> s.n + Changed(s.b, b1) + Changed(b1, b2) + Changed(b2, b3)]
    ELSE IF IsDot(p)
    THEN LET b1 == dot_link_rules(s.b, p[1], p[2])
         IN  [b |-> b1, n |-> s.n + Changed(s.b, b1)]
    ELSE s

RECURSIVE SweepFrom(_, _, _)
SweepFrom(s, order, k) ==
    IF k > Len(order) THEN s
    ELSE LET t == ApplyRules(s, order[k])
         IN  \* no write at this position: the sweep goes on from the same state
             IF t.n = s.n THEN SweepFrom(s, order, k + 1)
             ELSE SweepFrom(t, order, k + 1)

Sweep(b, o) == SweepFrom([b |-> b, n |-> 0], OrderSeq(o), 1)

DriverSweep(o) ==
    /\ ~done
    /\ sweeps < MaxSweeps
    /\ LET s == Sweep(board, o)
       IN  /\ board' = s.b
           /\ writes' = writes + s.n
           /\ done' = (s.n = 0)
    /\ sweeps' = sweeps + 1
    /\ op' = o
    /\ ret' = None
    /\ exc' = "none"
    /\ UNCHANGED arg

NextDriver == \E o \in Orders : DriverSweep(o)

SpecDriver == Init /\ [][NextDriver]_vars

----------------------------------------------------------------------------
\* Properties

Determined == {Blocked} \cup Links

NumEdgeSlots == Cardinality(EdgeSlots)

\* No rule, at any cell or dot position, writes anything.
IsFixpoint(b) ==
    /\ \A p \in Cells :
          /\ fill_x_around_completed_cells(b, p[1], p[2]) = b
          /\ enforce_cell_link_rules(b, p[1], p[2]) = b
          /\ handle_adjacent_threes(b, p[1], p[2]) = b
    /\ \A p \in Dots : dot_link_rules(b, p[1], p[2]) = b

\* All four neighbours of p are edge slots holding a link or blocked.
AllDetermined(b, p) == \A q \in Nbrs(p) : get_value(b, q[1], q[2]) \in Determined

\* The loaded puzzle a board grew from: its cells, every other position ' '.
PuzzleOf(b) == [p \in Pos |-> IF p \in Cells THEN b[p] ELSE Empty]

\* The grid the driver ends with when every sweep runs in order o.
RECURSIVE FixFrom(_, _)
FixFrom(b, o) ==
    LET s == Sweep(b, o)
    IN  IF s.n = 0 THEN b ELSE FixFrom(s.b, o)

ArgPos == <<arg.row, arg.col>>

\* C1: under any sequence of rule invocations at any coordinates, an edge
\* slot changes only from empty to a link or blocked; a determined edge slot
\* keeps its value in every later state.
C1_Monotonic ==
    [][\A p \in EdgeSlots :
          board'[p] # board[p] => (board[p] = Empty /\ board'[p] \in Determined)]_vars

\* Rules have acted while determined slots of both kinds were on the board.
C1_Witness ==
    /\ op = "rule"
    /\ \E p, q \in EdgeSlots : board[p] = Blocked /\ board[q] \in Links

\* The state of every position, the orientation of links aside.
Kinds(b) == [p \in Pos |-> IF b[p] \in Links THEN "link" ELSE b[p]]

\* C2: whatever order each sweep takes, the driver ends with the grid that
\* the forward order alone ends with on the same puzzle (the same state at
\* every position, even leaving the orientation of links aside).
C2_OrderIndependent ==
    done => Kinds(board) = Kinds(FixFrom(PuzzleOf(board), "forward"))

\* C3: at a fixpoint of the rules, every cell with a requirement and four
\* determined neighbour slots has exactly that many links, or an error was
\* reported to the caller.
C3_CellsMeetRequirement ==
    IsFixpoint(board) =>
        \A p \in Cells :
            (board[p] # Empty /\ AllDetermined(board, p)) =>
                \/ count_links(board, p[1], p[2]) = IntOf(board[p])
                \/ exc # "none"

\* C4: at a fixpoint of the rules, every dot with four determined neighbour
\* slots has 0 or 2 links.
C4_DotsZeroOrTwo ==
    IsFixpoint(board) =>
        \A p \in Dots :
            AllDetermined(board, p) => count_links(board, p[1], p[2]) \in {0, 2}

\* C5: the driver never writes more often than there are edge slots; while a
\* sweep is still to come it has run at most that many sweeps, so it stops,
\* after a sweep that wrote nothing, within that many sweeps plus one.
C5_Terminates ==
    /\ writes <= NumEdgeSlots
    /\ sweeps <= (IF done THEN NumEdgeSlots + 1 ELSE NumEdgeSlots)
    /\ ~done => sweeps < MaxSweeps

\* The driver stopped after sweeps that wrote, the last one writing nothing.
C5_Witness == done /\ writes >= 4 /\ sweeps >= 3

\* C6: a guarded write of blocked onto a link, or of a link onto blocked, and
\* a dot rule deriving blocked for a slot that holds the dot's only link,
\* raise InvalidMoveError.
C6_ContradictionSurfaced ==
    [][(\/ op' = "cond_set_x" /\ get_value(board, arg.row, arg.col) \in Links
        \/ op' = "cond_set_link" /\ get_value(board, arg.row, arg.col) = Blocked
        \/ /\ DotLinkRules(arg.row, arg.col)
           /\ count_xes(board, arg.row, arg.col) = 3
           /\ count_links(board, arg.row, arg.col) = 1)
       => exc' = "InvalidMoveError"]_vars

\* C7: with the cell rules invoked at cells and the dot rule at dots, every
\* position a step changes is an edge slot; dots and cells never change.
C7_Frame == [][\A p \in Pos : board'[p] # board[p] => IsEdge(p)]_vars

\* A rule has written an edge slot.
C7_Witness == op = "rule" /\ \E p \in EdgeSlots : board[p] \in Determined

PyTrue == "True"
PyFalse == "False"

C9_GetValue ==
    [][op' = "get_value" =>
          /\ ret' = IF arg.row \in Rows /\ arg.col \in Cols
                    THEN board[ArgPos] ELSE None
          /\ exc' = "none"
          /\ board' = board]_vars

\* get_value has answered None for a negative coordinate.
C9_Witness == op = "get_value" /\ (arg.row < 0 \/ arg.col < 0) /\ ret = None

\* C10: count_links is the number of in-bounds von Neumann neighbours holding
\* a link of either orientation, count_xes the number holding blocked, and
\* together they never exceed the number of in-bounds neighbours.
C10_Counts ==
    LET inb == Nbrs(ArgPos) \cap Pos
    IN  /\ op = "count_links" =>
              ret = Cardinality({q \in inb : board[q] = "-" \/ board[q] = "|"})
        /\ op = "count_xes" =>
              ret = Cardinality({q \in inb : board[q] = Blocked})
        /\ count_links(board, arg.row, arg.col) + count_xes(board, arg.row, arg.col)
              <= Cardinality(inb)

\* count_links has counted a vertical link next to a position on the border.
C10_Witness ==
    /\ op = "count_links"
    /\ ret >= 1
    /\ Cardinality(Nbrs(ArgPos) \cap Pos) < 4
    /\ \E q \in Nbrs(ArgPos) \cap Pos : board[q] = "|"

----------------------------------------------------------------------------
\* The rules one at a time

\* Links and blocked slots among the in-bounds neighbours of p.
NumLinks(b, p) == Cardinality({q \in Nbrs(p) \cap Pos : b[q] \in Links})
NumBlocked(b, p) == Cardinality({q \in Nbrs(p) \cap Pos : b[q] = Blocked})
EmptyNbrs(b, p) == {q \in Nbrs(p) \cap Pos : b[q] = Empty}

\* The call is made on a cell (on a dot) of the grid.
ArgIsCell == InBounds(arg.row, arg.col) /\ IsCell(ArgPos)
ArgIsDot == InBounds(arg.row, arg.col) /\ IsDot(ArgPos)

\* b with every empty neighbour slot of p blocked.
BlockEmpty(b, p) == [q \in Pos |-> IF q \in EmptyNbrs(b, p) THEN Blocked ELSE b[q]]

\* c is b with every empty slot in S turned into a link, nothing else changed.
LinkedIn(b, c, S) ==
    \A q \in Pos : IF q \in S /\ b[q] = Empty THEN c[q] \in Links ELSE c[q] = b[q]

\* C11: fill_x_around_completed_cells on a cell with requirement R, L links
\* and X blocked around it blocks every empty neighbour slot and changes
\* nothing else when L = R and L + X # 4, and otherwise (or on a cell with no
\* requirement) leaves the grid unchanged.
C11_CellSaturation ==
    [][(ArgIsCell /\ FillXAroundCompletedCells(arg.row, arg.col)) =>
          board' = IF /\ IsDigit(board[ArgPos])
                      /\ NumLinks(board, ArgPos) = IntOf(board[ArgPos])
                      /\ NumLinks(board, ArgPos) + NumBlocked(board, ArgPos) # 4
                   THEN BlockEmpty(board, ArgPos)
                   ELSE board]_vars

\* A requirement-2 cell ended with two links and two blocked slots.
C11_Witness ==
    /\ op = "rule" /\ ArgIsCell /\ board[ArgPos] = "2"
    /\ NumLinks(board, ArgPos) = 2 /\ NumBlocked(board, ArgPos) = 2

\* C12: enforce_cell_link_rules on a cell with requirement R, L links and X
\* blocked around it turns every empty neighbour slot into a link, changes
\* nothing else and leaves the cell with exactly R links when L < R and
\* 4 - X = R, and otherwise leaves the grid unchanged.
C12_CellForcedLink ==
    [][(ArgIsCell /\ EnforceCellLinkRules(arg.row, arg.col)) =>
          IF /\ IsDigit(board[ArgPos])
             /\ NumLinks(board, ArgPos) < IntOf(board[ArgPos])
             /\ 4 - NumBlocked(board, ArgPos) = IntOf(board[ArgPos])
          THEN /\ LinkedIn(board, board', Nbrs(ArgPos))
               /\ NumLinks(board', ArgPos) = IntOf(board[ArgPos])
          ELSE board' = board]_vars

\* A requirement-4 cell ended with all four slots link.
C12_Witness ==
    /\ op = "rule" /\ ArgIsCell /\ board[ArgPos] = "4"
    /\ NumLinks(board, ArgPos) = 4

HoldsThree(b, p) == p \in Pos /\ b[p] = "3"

\* C14: handle_adjacent_threes on a cell holding 3 turns the empty slots among
\* (row-1, col), (row+1, col) into links when the cell two rows below holds 3;
\* else the empty slots among (row, col-1), (row, col+1) when the cell two
\* columns to the right holds 3; it changes nothing else, and nothing at all
\* in every other case.  With a 3 below and a 3 to the right only the vertical
\* pair is written.
C14_AdjacentThrees ==
    [][(ArgIsCell /\ HandleAdjacentThrees(arg.row, arg.col)) =>
          IF HoldsThree(board, ArgPos) /\ HoldsThree(board, <<arg.row + 2, arg.col>>)
          THEN LinkedIn(board, board',
                        {<<arg.row - 1, arg.col>>, <<arg.row + 1, arg.col>>})
          ELSE IF HoldsThree(board, ArgPos)
                  /\ HoldsThree(board, <<arg.row, arg.col + 2>>)
               THEN LinkedIn(board, board',
                             {<<arg.row, arg.col - 1>>, <<arg.row, arg.col + 1>>})
               ELSE board' = board]_vars

\* With a 3 below and a 3 to the right, the slots above and below the cell are
\* links and the slots left and right of it are still empty.
C14_Witness ==
    /\ op = "rule" /\ ArgIsCell
    /\ HoldsThree(board, ArgPos)
    /\ HoldsThree(board, <<arg.row + 2, arg.col>>)
    /\ HoldsThree(board, <<arg.row, arg.col + 2>>)
    /\ board[<<arg.row - 1, arg.col>>] \in Links
    /\ board[<<arg.row + 1, arg.col>>] \in Links
    /\ board[<<arg.row, arg.col - 1>>] = Empty
    /\ board[<<arg.row, arg.col + 1>>] = Empty

\* C15 as stated: a full sweep applied right after the same full sweep leaves
\* the grid as the first sweep left it.
C15_SweepIdempotent ==
    [][(op \in Orders /\ op' = op) => board' = board]_vars

\* C15 amended: a full sweep applied right after the same full sweep changes
\* no position that the first sweep left non-empty; it may only fill slots
\* that the first sweep left empty.
C15_SecondSweepOnlyFills ==
    [][(op \in Orders /\ op' = op) =>
          \A p \in Pos : board[p] # Empty => board'[p] = board[p]]_vars

\* The same sweep ran twice in a row and the second one still wrote.
C15_Witness == sweeps = 2 /\ ~done /\ writes > 0

\* One of the three cell rules is invoked at the called position.
CellRuleAtArg ==
    \/ FillXAroundCompletedCells(arg.row, arg.col)
    \/ EnforceCellLinkRules(arg.row, arg.col)
    \/ HandleAdjacentThrees(arg.row, arg.col)

\* C16: on a cell with requirement 1 that has two links around it, a cell rule
\* either leaves the grid unchanged or raises InvalidMoveError; none changes
\* the grid silently.
C16_Scenario6 ==
    [][(/\ ArgIsCell /\ board[ArgPos] = "1" /\ NumLinks(board, ArgPos) = 2
        /\ CellRuleAtArg)
       => (board' = board \/ exc' = "InvalidMoveError")]_vars

\* A rule has run on a requirement-1 cell with two links and an empty slot.
C16_Witness ==
    /\ op = "rule" /\ ArgIsCell /\ board[ArgPos] = "1"
    /\ NumLinks(board, ArgPos) = 2
    /\ EmptyNbrs(board, ArgPos) # {}

\* C17: after any of the four rules has been invoked where it applies (a cell
\* rule on a cell, the dot rule on a dot), the same rule invoked again at the
\* same position writes nothing.
C17_RuleIdempotent ==
    [][/\ (ArgIsCell /\ FillXAroundCompletedCells(arg.row, arg.col)) =>
             fill_x_around_completed_cells(board', arg.row, arg.col) = board'
       /\ (ArgIsCell /\ EnforceCellLinkRules(arg.row, arg.col)) =>
             enforce_cell_link_rules(board', arg.row, arg.col) = board'
       /\ (ArgIsCell /\ HandleAdjacentThrees(arg.row, arg.col)) =>
             handle_adjacent_threes(board', arg.row, arg.col) = board'
       /\ (ArgIsDot /\ DotLinkRules(arg.row, arg.col)) =>
             dot_link_rules(board', arg.row, arg.col) = board']_vars

\* A rule has filled the slots around a cell that now meets its requirement.
C17_Witness ==
    /\ op = "rule" /\ ArgIsCell /\ IsDigit(board[ArgPos])
    /\ EmptyNbrs(board, ArgPos) = {}
    /\ NumBlocked(board, ArgPos) > 0
    /\ NumLinks(board, ArgPos) = IntOf(board[ArgPos])

\* C18: in every state reachable by rule invocations from a grid with empty
\* edge slots, an edge slot between two horizontally adjacent dots (even row,
\* odd column) never holds the vertical link, and an edge slot between two
\* vertically adjacent dots (odd row, even column) never holds the horizontal
\* link.
C18_OrientationMatchesGeometry ==
    \A p \in EdgeSlots :
        /\ (p[1] % 2 = 0 /\ p[2] % 2 = 1) => board[p] \in {Empty, Blocked, "-"}
        /\ (p[1] % 2 = 1 /\ p[2] % 2 = 0) => board[p] \in {Empty, Blocked, "|"}

\* A dot is forced: exactly one of its in-bounds slots is empty, at most one
\* holds a link, and the others are blocked.
ForcedDot(b, p) == Cardinality(EmptyNbrs(b, p)) = 1 /\ NumLinks(b, p) <= 1

\* C19: in a state where no rule produces a write, no dot (interior, border or
\* corner) has exactly one empty in-bounds slot with zero or one link and
\* every other in-bounds slot blocked.
C19_NoMissedDotDeduction ==
    IsFixpoint(board) => \A p \in Dots : ~ForcedDot(board, p)

\* C20: a guarded write whose target is outside the grid leaves every grid
\* position unchanged and does not raise, and the dot rule invoked on a dot
\* changes no position other than the in-bounds neighbours of that dot.
C20_OutOfBoundsNoOp ==
    [][/\ (op' \in {"cond_set_x", "cond_set_link"} /\ ~InBounds(arg.row, arg.col))
            => (board' = board /\ exc' = "none")
       /\ (ArgIsDot /\ DotLinkRules(arg.row, arg.col))
            => \A p \in Pos : board'[p] # board[p] => p \in Nbrs(ArgPos)]_vars

\* cond_set_x was called one row above the grid while the slot in the same
\* column of the last row was empty.
C20_Witness ==
    /\ op = "cond_set_x" /\ arg.row = -1 /\ arg.col = 1
    /\ board[<<height - 1, 1>>] = Empty

====
